---- MODULE Spec2Model ----
(***************************************************************************)
(* A model of mc3p/encryption.py: the RC4 stream cipher, the PKCS#1 v1.5   *)
(* padding used to carry the shared secret, the version-gated cipher       *)
(* selection and the PBEWithMD5AndDES password-based cipher.               *)
(*                                                                         *)
(* Byte strings are sequences of integers in 0..255.  The primitives of    *)
(* the PyCrypto and hashlib libraries (RSA, DES, MD5, the random source)   *)
(* are represented by small stand-ins that keep the properties the code    *)
(* relies on (invertibility, block length, loss of leading zero bytes).    *)
(***************************************************************************)
EXTENDS Integers, Sequences, FiniteSets, TLC

(***************************************************************************)
(* Bounds of the model.                                                    *)
(***************************************************************************)
\* longest argument of one RC4.crypt call drawn from the byte alphabet
MaxLen == 2
\* most bytes one RC4 instance is fed in total
MaxStream == 3
\* length of the repeating pattern a payload of the padding is built from
PatLen == 2
\* length of the repeating pattern of draws from the random source
SeedLen == 2
\* longest block an RSA ciphertext made by a third party decrypts to
MaxForged == 3
\* longest plaintext passed to PBEWithMD5AndDES.encrypt
MaxPlain == 9
\* protocol versions asked about run from -MaxVersion to MaxVersion
MaxVersion == 64

(***************************************************************************)
(* Bytes.                                                                  *)
(***************************************************************************)
BoxSize == 256

Byte == 0 .. (BoxSize - 1)

\* Python's ^ on two non-negative integers
RECURSIVE Xor(_, _)
Xor(a, b) ==
    IF a = 0 THEN b
    ELSE IF b = 0 THEN a
    ELSE (((a % 2) + (b % 2)) % 2) + 2 * Xor(a \div 2, b \div 2)

\* box[a], box[b] = box[b], box[a]
Swap(box, a, b) == [box EXCEPT ![a] = box[b], ![b] = box[a]]

\* the bytes of b from position n + 1 on
Drop(b, n) == SubSeq(b, n + 1, Len(b))

\* all sequences over S of length at most n
SeqsUpTo(S, n) == UNION {[1 .. k -> S] : k \in 0 .. n}

(***************************************************************************)
(* class RC4                                                               *)
(***************************************************************************)
\* range(256)
RangeBox == [i \in Byte |-> i]

\* KeyStep with box[i] left out of the sum
KeyStepNoBox(s, key, i) ==
    LET x == (s.x + key[(i % Len(key)) + 1]) % BoxSize
    IN  [box |-> Swap(s.box, i, x), x |-> x]

\* one iteration of the loop of RC4.__init__, on the pair (box, x)
KeyStep(s, key, i) ==
    LET x == (s.x + s.box[i] + key[(i % Len(key)) + 1]) % BoxSize
    IN  [box |-> Swap(s.box, i, x), x |-> x]

\* the iterations i = lo, ..., hi - 1 of the loop of RC4.__init__, in order,
\* from the pair s = (box, x); the range is halved to keep evaluation shallow
RECURSIVE KeyLoop(_, _, _, _)
KeyLoop(s, key, lo, hi) ==
    IF hi <= lo THEN s
    ELSE IF hi = lo + 1 THEN KeyStep(s, key, lo)
    ELSE LET mid   == (lo + hi) \div 2
             first == KeyLoop(s, key, lo, mid)
         IN  \* the test evaluates the first half before the second starts
             IF first.x \in Byte THEN KeyLoop(first, key, mid, hi) ELSE first

\* the first n iterations of the loop of RC4.__init__
KeySchedule(key, n) == KeyLoop([box |-> RangeBox, x |-> 0], key, 0, n)

\* RC4.__init__: the fields of the new instance
RC4Init(key) ==
    [key |-> key, box |-> KeySchedule(key, BoxSize).box, x |-> 0, y |-> 0]

\* CryptStep with the keystream byte added to the character, not xored
CryptStepAdd(self, char) ==
    LET x   == (self.x + 1) % BoxSize
        y   == (self.y + self.box[x]) % BoxSize
        box == Swap(self.box, x, y)
    IN  [self |-> [self EXCEPT !.x = x, !.y = y, !.box = box],
         out  |-> (char + box[(box[x] + box[y]) % BoxSize]) % BoxSize]

\* CryptStep with box[x] = box[y] in place of the swap
CryptStepAssign(self, char) ==
    LET x   == (self.x + 1) % BoxSize
        y   == (self.y + self.box[x]) % BoxSize
        box == [self.box EXCEPT ![x] = self.box[y]]
    IN  [self |-> [self EXCEPT !.x = x, !.y = y, !.box = box],
         out  |-> Xor(char, box[(box[x] + box[y]) % BoxSize])]

\* one iteration of the loop of RC4.crypt: the instance after it and the
\* character appended to out
CryptStep(self, char) ==
    LET x   == (self.x + 1) % BoxSize
        y   == (self.y + self.box[x]) % BoxSize
        box == Swap(self.box, x, y)
    IN  [self |-> [self EXCEPT !.x = x, !.y = y, !.box = box],
         out  |-> Xor(char, box[(box[x] + box[y]) % BoxSize])]

\* the loop of RC4.crypt over data[1..n]: the instance after it and out
RECURSIVE CryptLoop(_, _, _)
CryptLoop(self, data, n) ==
    IF n = 0 THEN [self |-> self, out |-> <<>>]
    ELSE LET before == CryptLoop(self, data, n - 1)
             step   == CryptStep(before.self, data[n])
         IN  [self |-> step.self, out |-> Append(before.out, step.out)]

\* RC4.crypt with x and y starting from 0 in every call
RC4cryptRestart(self, data) ==
    CryptLoop([self EXCEPT !.x = 0, !.y = 0], data, Len(data))

\* RC4.crypt(data)
RC4crypt(self, data) == CryptLoop(self, data, Len(data))

\* decrypt = encrypt = crypt
RC4encrypt(self, data) == RC4crypt(self, data)
RC4decrypt(self, data) == RC4crypt(self, data)

(***************************************************************************)
(* Shared-secret transport: _pkcs1_pad, _pkcs1_unpad and the RSA calls.    *)
(***************************************************************************)
\* the outcomes of a call: a byte string returned, None returned (the
\* function ends without a return statement), an exception raised
Bytes(b) == [kind |-> "bytes", val |-> b]

None == [kind |-> "None"]

Raise(e) == [kind |-> "raise", err |-> e]

\* assert len(bytes) < 117
PayloadLimit == 117

\* while len(padding) < 125-len(bytes)
PaddingBase == 125

\* bytes.find(chr(v)): the 0-based index of the first v in b, or -1
Find(b, v) ==
    IF \E k \in 1 .. Len(b) : b[k] = v
    THEN (CHOOSE k \in 1 .. Len(b) :
              b[k] = v /\ \A j \in 1 .. (k - 1) : b[j] # v) - 1
    ELSE -1

\* bytes.rfind(chr(v)): the 0-based index of the last v in b, or -1
RFind(b, v) ==
    IF \E k \in 1 .. Len(b) : b[k] = v
    THEN (CHOOSE k \in 1 .. Len(b) :
              b[k] = v /\ \A j \in (k + 1) .. Len(b) : b[j] # v) - 1
    ELSE -1

\* _pkcs1_unpad scanning from the right
Pkcs1UnpadLast(bytes) ==
    LET pos == RFind(bytes, 0)
    IN  IF pos > 0 THEN Bytes(SubSeq(bytes, pos + 2, Len(bytes))) ELSE None

\* _pkcs1_unpad(bytes)
Pkcs1Unpad(bytes) ==
    LET pos == Find(bytes, 0)
    IN  IF pos > 0 THEN Bytes(SubSeq(bytes, pos + 2, Len(bytes))) ELSE None

\* Random.get_random_bytes(1), draw number k (from 0) of a source whose
\* draws repeat the pattern seed
Draw(seed, k) == seed[(k % Len(seed)) + 1]

\* one iteration of the loop of _pkcs1_pad keeping a zero byte as well
PadStepKeepZero(padding, need, seed, k) ==
    IF Len(padding) < need THEN Append(padding, Draw(seed, k)) ELSE padding

\* one iteration of the loop of _pkcs1_pad, with draw number k; once the
\* loop condition fails nothing more is drawn
PadStep(padding, need, seed, k) ==
    IF Len(padding) < need
    THEN LET byte == Draw(seed, k)
         IN  IF byte # 0 THEN Append(padding, byte) ELSE padding
    ELSE padding

\* the iterations of the loop of _pkcs1_pad that use the draws lo .. hi - 1,
\* in order; the range is halved to keep evaluation shallow
RECURSIVE PadLoop(_, _, _, _, _)
PadLoop(padding, need, seed, lo, hi) ==
    IF hi <= lo THEN padding
    ELSE IF hi = lo + 1 THEN PadStep(padding, need, seed, lo)
    ELSE LET mid   == (lo + hi) \div 2
             first == PadLoop(padding, need, seed, lo, mid)
         IN  \* the test evaluates the first half before the second starts
             IF Len(first) >= 0
             THEN PadLoop(first, need, seed, mid, hi)
             ELSE first

\* _pkcs1_pad(bytes), with the random source repeating seed (which holds a
\* non-zero byte, so that need * Len(seed) draws fill the padding)
Pkcs1Pad(bytes, seed) ==
    IF ~(Len(bytes) < PayloadLimit) THEN Raise("AssertionError")
    ELSE LET need    == PaddingBase - Len(bytes)
             padding == PadLoop(<<>>, need, seed, 0, need * Len(seed))
         IN  Bytes(<<0, 2>> \o padding \o <<0>> \o bytes)

\* Crypto.Util.number.long_to_bytes(bytes_to_long(b)): b without its
\* leading zero bytes, and one zero byte for the number 0
StripZeros(b) ==
    IF \A k \in 1 .. Len(b) : b[k] = 0 THEN <<0>>
    ELSE LET first == CHOOSE k \in 1 .. Len(b) :
                          b[k] # 0 /\ \A j \in 1 .. (k - 1) : b[j] = 0
         IN  SubSeq(b, first, Len(b))

\* the key pairs generate_key_pair can return, in a stand-in for RSA that
\* works byte by byte: byte b of the number encrypts to (e * b + k) mod 256
\* and byte c decrypts to d * (c - k) mod 256, where e * d = 1 mod 256
KeyPairs ==
    { [e |-> 3, d |-> 171, k |-> 17],
      [e |-> 5, d |-> 205, k |-> 90] }

\* public_key.encrypt(block, 0)[0]: the block is read as a number
RSAEncrypt(block, key) ==
    LET m == StripZeros(block)
    IN  [n \in 1 .. Len(m) |-> (key.e * m[n] + key.k) % BoxSize]

\* private_key.decrypt(encrypted_key): the number is written as bytes
RSADecrypt(c, key) ==
    StripZeros([n \in 1 .. Len(c) |-> (key.d * (c[n] + BoxSize - key.k)) % BoxSize])

\* encrypt_shared_secret(shared_secret, public_key)
EncryptSharedSecret(shared_secret, public_key, seed) ==
    LET padded == Pkcs1Pad(shared_secret, seed)
    IN  IF padded.kind = "raise" THEN padded
        ELSE Bytes(RSAEncrypt(padded.val, public_key))

\* decrypt_shared_secret(encrypted_key, private_key)
DecryptSharedSecret(encrypted_key, private_key) ==
    Pkcs1Unpad(RSADecrypt(encrypted_key, private_key))

(***************************************************************************)
(* class PBEWithMD5AndDES                                                  *)
(***************************************************************************)
SALT == <<12, 157, 74, 228, 30, 131, 21, 252>>

COUNT == 5

\* the block length of DES, the 8 of encrypt
DesBlock == 8

\* the length _generate_key is asked for, and the length of an MD5 digest
KeyLength == 16

\* a stand-in for md5(s).digest(): 16 bytes that depend on every byte of s,
\* on its position and on the length of s
RECURSIVE WeightedSum(_, _, _)
WeightedSum(str, j, n) ==
    IF n = 0 THEN 0
    ELSE (WeightedSum(str, j, n - 1) + str[n] * (n + j) + 1) % BoxSize

Md5Digest(str) ==
    [j \in 1 .. KeyLength |-> (WeightedSum(str, j, Len(str)) + 31 * j) % BoxSize]

\* the loop of _generate_key: i iterations of key = md5(key).digest()
RECURSIVE HashLoop(_, _)
HashLoop(key, i) == IF i = 0 THEN key ELSE Md5Digest(HashLoop(key, i - 1))

\* PBEWithMD5AndDES._generate_key(key, salt, count, length)
GenerateKey(key, salt, count, length) ==
    LET hashed == HashLoop(key \o salt, count)
    IN  SubSeq(hashed, 1, IF length < Len(hashed) THEN length ELSE Len(hashed))

\* PBEWithMD5AndDES.__init__(key): the fields of the new instance
PbeInit(password) ==
    LET key == GenerateKey(password, SALT, COUNT, KeyLength)
    IN  [key |-> SubSeq(key, 1, 8), iv |-> SubSeq(key, 9, 16)]

\* a stand-in for DES on one block: an invertible map of 8-byte blocks,
\* chosen by the key, that moves and changes every byte
DesBlockEncrypt(key, b) ==
    [j \in 1 .. DesBlock |-> (b[(j % DesBlock) + 1] + key[j]) % BoxSize]

DesBlockDecrypt(key, c) ==
    [j \in 1 .. DesBlock |->
        LET from == ((j + DesBlock - 2) % DesBlock) + 1
        IN  (c[from] + BoxSize - key[from]) % BoxSize]

XorBlock(a, b) == [j \in 1 .. DesBlock |-> Xor(a[j], b[j])]

\* block number k (from 1) of a buffer
BlockOf(buf, k) == SubSeq(buf, (k - 1) * DesBlock + 1, k * DesBlock)

\* CBC over the blocks k .. of buf, prev being the previous ciphertext block
RECURSIVE CbcEncryptFrom(_, _, _, _)
CbcEncryptFrom(key, prev, buf, k) ==
    IF k * DesBlock > Len(buf) THEN <<>>
    ELSE LET c == DesBlockEncrypt(key, XorBlock(BlockOf(buf, k), prev))
         IN  c \o CbcEncryptFrom(key, c, buf, k + 1)

RECURSIVE CbcDecryptFrom(_, _, _, _)
CbcDecryptFrom(key, prev, buf, k) ==
    IF k * DesBlock > Len(buf) THEN <<>>
    ELSE LET c == BlockOf(buf, k)
         IN  XorBlock(DesBlockDecrypt(key, c), prev)
                 \o CbcDecryptFrom(key, c, buf, k + 1)

\* self._cipher().encrypt(buf): DES.new(key, DES.MODE_CBC, iv) takes whole
\* blocks only
CipherEncrypt(self, buf) ==
    IF Len(buf) % DesBlock # 0 THEN Raise("ValueError")
    ELSE Bytes(CbcEncryptFrom(self.key, self.iv, buf, 1))

\* self._cipher().decrypt(buf)
CipherDecrypt(self, buf) ==
    IF Len(buf) % DesBlock # 0 THEN Raise("ValueError")
    ELSE Bytes(CbcDecryptFrom(self.key, self.iv, buf, 1))

\* chr(v) * n
Times(v, n) == [k \in 1 .. n |-> v]

\* PBEWithMD5AndDES.encrypt with no padding for whole blocks
PbeEncryptNoFullPad(self, plaintext) ==
    LET padding == (DesBlock - (Len(plaintext) % DesBlock)) % DesBlock
    IN  CipherEncrypt(self, plaintext \o Times(padding, padding))

\* PBEWithMD5AndDES.encrypt(plaintext)
PbeEncrypt(self, plaintext) ==
    LET padding == DesBlock - (Len(plaintext) % DesBlock)
    IN  CipherEncrypt(self, plaintext \o Times(padding, padding))

\* str[:-n] for n >= 0: Python reads -0 as 0 and a negative stop from the
\* end, and it clips a stop before the start to the start
SliceToMinus(str, n) ==
    LET stop == IF n = 0 THEN 0
                ELSE IF Len(str) - n < 0 THEN 0
                ELSE Len(str) - n
    IN  SubSeq(str, 1, stop)

\* PBEWithMD5AndDES.decrypt(ciphertext)
PbeDecrypt(self, ciphertext) ==
    LET plaintext == CipherDecrypt(self, ciphertext)
    IN  IF plaintext.kind = "raise" THEN plaintext
        ELSE IF plaintext.val = <<>> THEN Raise("IndexError")
        ELSE Bytes(SliceToMinus(plaintext.val, plaintext.val[Len(plaintext.val)]))

(***************************************************************************)
(* encryption_for_version                                                  *)
(***************************************************************************)
\* encryption_for_version with < in place of <=
EncryptionBelowVersion(version) ==
    IF version < 32 THEN "RC4" ELSE "AES128CFB8"

\* encryption_for_version(version): the name of the constructor returned
EncryptionForVersion(version) ==
    IF version <= 32 THEN "RC4" ELSE "AES128CFB8"

(***************************************************************************)
(* State.                                                                  *)
(***************************************************************************)
VARIABLES
    rc4,    \* the two RC4 instances of a connection: key, box, x, y
    fed,    \* per instance, every byte passed to crypt so far, in order
    got,    \* per instance, every byte crypt returned so far, in order
    ret,    \* per instance, the value the last crypt call returned
    key_pair,       \* the RSA key pair generate_key_pair returned
    shared_secret,  \* the argument of encrypt_shared_secret
    random_draws,   \* the pattern the random source repeated during it
    padded,         \* what _pkcs1_pad returned inside encrypt_shared_secret
    encrypted_key,  \* what encrypt_shared_secret returned, or NotCalled
    received_key,   \* the argument of decrypt_shared_secret
    block,          \* what private_key.decrypt returned inside it
    decrypted,      \* what decrypt_shared_secret returned, or NotCalled
    pbe,            \* the PBEWithMD5AndDES instance: key, iv
    plaintext,      \* the argument of its encrypt
    ciphertext,     \* what encrypt returned, or NotCalled
    given,          \* the argument of its decrypt
    buffer,         \* what the DES cipher returned inside decrypt
    recovered,      \* what decrypt returned, or NotCalled
    version,        \* the argument of encryption_for_version
    selected        \* the constructor it returned, or "not called"

rc4vars == <<rc4, fed, got, ret>>

secretvars ==
    <<key_pair, shared_secret, random_draws, padded, encrypted_key,
      received_key, block, decrypted>>

pbevars == <<pbe, plaintext, ciphertext, given, buffer, recovered>>

versionvars == <<version, selected>>

vars == <<rc4vars, secretvars, pbevars, versionvars>>

\* a call that has not been made
NotCalled == [kind |-> "not called"]

\* the two ends of a connection, each with its own cipher instance
Side == {"enc", "dec"}

\* keys: the 3-byte key "Key" of the published vectors and a 16-byte
\* shared secret
Keys ==
    { <<75, 101, 121>>,
      <<0, 1, 2, 3, 4, 5, 6, 7, 8, 9, 10, 11, 12, 13, 14, 255>> }

\* the byte alphabet the callers' data is drawn from
DataBytes == {0, 65}

\* the instance RC4(key) builds, for each key of the model
Fresh == [key \in Keys |-> RC4Init(key)]

\* the RC4 instances when no connection is modelled
IdleRC4 ==
    /\ rc4 = <<>>
    /\ fed = <<>>
    /\ got = <<>>
    /\ ret = <<>>

\* the shared-secret transport when it is not modelled
IdleSecret ==
    /\ key_pair = <<>>
    /\ shared_secret = <<>>
    /\ random_draws = <<>>
    /\ padded = NotCalled
    /\ encrypted_key = NotCalled
    /\ received_key = <<>>
    /\ block = <<>>
    /\ decrypted = NotCalled

\* the password-based cipher when it is not modelled
IdlePbe ==
    /\ pbe = <<>>
    /\ plaintext = <<>>
    /\ ciphertext = NotCalled
    /\ given = <<>>
    /\ buffer = NotCalled
    /\ recovered = NotCalled

\* the cipher selection when it is not modelled
IdleVersion ==
    /\ version = 0
    /\ selected = "not called"

InitRC4 ==
    /\ IdleSecret
    /\ IdlePbe
    /\ IdleVersion
    /\ \E k \in [Side -> Keys] : rc4 = [i \in Side |-> Fresh[k[i]]]
    /\ fed = [i \in Side |-> <<>>]
    /\ got = [i \in Side |-> <<>>]
    /\ ret = [i \in Side |-> <<>>]

\* a new connection: both sides construct their instance, RC4(k[i])
Connect(k) ==
    /\ rc4' = [i \in Side |-> Fresh[k[i]]]
    /\ fed' = [i \in Side |-> <<>>]
    /\ got' = [i \in Side |-> <<>>]
    /\ ret' = [i \in Side |-> <<>>]
    /\ UNCHANGED <<secretvars, pbevars, versionvars>>

\* rc4[i].crypt(data)
Crypt(i, data) ==
    /\ Len(fed[i]) + Len(data) <= MaxStream
    /\ LET r == RC4crypt(rc4[i], data)
       IN  /\ rc4' = [rc4 EXCEPT ![i] = r.self]
           /\ ret' = [ret EXCEPT ![i] = r.out]
           /\ got' = [got EXCEPT ![i] = got[i] \o r.out]
    /\ fed' = [fed EXCEPT ![i] = fed[i] \o data]
    /\ UNCHANGED <<secretvars, pbevars, versionvars>>

\* data a caller passes to crypt on side i: bytes of its own or, on the
\* receiving side, what the sending side's last call returned, when that is
\* the next part of the stream in arrival order
CryptInputs(i) ==
    SeqsUpTo(DataBytes, MaxLen)
        \cup (IF i = "dec" /\ Len(fed["dec"]) + Len(ret["enc"]) = Len(fed["enc"])
              THEN {ret["enc"]}
              ELSE {})

NextRC4 ==
    \/ \E k \in [Side -> Keys] : Connect(k)
    \/ \E i \in Side : \E data \in CryptInputs(i) : Crypt(i, data)

SpecRC4 == InitRC4 /\ [][NextRC4]_vars

(***************************************************************************)
(* The shared-secret transport as a state machine: one side encrypts a     *)
(* secret under the public key, the other side decrypts what it receives.  *)
(***************************************************************************)
\* the sequence of length n that repeats pattern pat
Repeat(pat, n) == [k \in 1 .. n |-> pat[((k - 1) % Len(pat)) + 1]]

\* payload lengths: nothing, a 16-byte shared secret, the longest payload
\* the assertion lets through and the shortest it stops
PayloadLens == {0, 16, PayloadLimit - 1, PayloadLimit}

\* payloads: every length above filled with a repeating pattern of bytes
\* that include 0
Payloads ==
    {Repeat(pat, n) : pat \in [1 .. PatLen -> {0, 255}], n \in PayloadLens}

\* random sources: every repeating pattern of draws with a non-zero byte
Seeds == {sd \in [1 .. SeedLen -> {0, 1, 255}] : \E k \in 1 .. SeedLen : sd[k] # 0}

\* blocks a ciphertext that did not come from encrypt_shared_secret can
\* decrypt to: a number written as bytes has no leading zero byte
ForgedBlocks ==
    {b \in SeqsUpTo({0, 1, 2, 255}, MaxForged) : b # <<>> /\ StripZeros(b) = b}

InitSecret ==
    /\ IdleRC4
    /\ IdlePbe
    /\ IdleVersion
    /\ key_pair \in KeyPairs
    /\ shared_secret = <<>>
    /\ random_draws = <<>>
    /\ padded = NotCalled
    /\ encrypted_key = NotCalled
    /\ received_key = <<>>
    /\ block = <<>>
    /\ decrypted = NotCalled

\* encrypt_shared_secret(secret, public_key), the random source repeating
\* seed
Encrypt(secret, seed) ==
    /\ encrypted_key = NotCalled
    /\ decrypted = NotCalled
    /\ shared_secret' = secret
    /\ random_draws' = seed
    /\ padded' = Pkcs1Pad(secret, seed)
    /\ encrypted_key' = EncryptSharedSecret(secret, key_pair, seed)
    /\ UNCHANGED <<key_pair, received_key, block, decrypted>>
    /\ UNCHANGED <<rc4vars, pbevars, versionvars>>

\* decrypt_shared_secret(c, private_key)
Decrypt(c) ==
    /\ decrypted = NotCalled
    /\ received_key' = c
    /\ block' = RSADecrypt(c, key_pair)
    /\ decrypted' = DecryptSharedSecret(c, key_pair)
    /\ UNCHANGED <<key_pair, shared_secret, random_draws, padded, encrypted_key>>
    /\ UNCHANGED <<rc4vars, pbevars, versionvars>>

\* what the decrypting side can receive: the ciphertext the other side
\* made or, when that side sent nothing, any ciphertext a third party made
\* with the public key
Receivable ==
    IF encrypted_key.kind = "bytes" THEN {encrypted_key.val}
    ELSE IF encrypted_key = NotCalled
    THEN {RSAEncrypt(b, key_pair) : b \in ForgedBlocks}
    ELSE {}

NextSecret ==
    \/ \E secret \in Payloads, seed \in Seeds : Encrypt(secret, seed)
    \/ \E c \in Receivable : Decrypt(c)

SpecSecret == InitSecret /\ [][NextSecret]_vars

(***************************************************************************)
(* The password-based cipher as a state machine: an instance is built from *)
(* a password, encrypts a plaintext and decrypts what it is given.         *)
(***************************************************************************)
Passwords == { <<112, 119>>, <<1>> }

\* plaintexts: every length up to MaxPlain filled with a repeating pattern
\* of bytes that include 0 and values a pad byte can have
Plaintexts ==
    {Repeat(pat, n) : pat \in [1 .. PatLen -> {0, 1, 8}], n \in 0 .. MaxPlain}

\* buffers a ciphertext that did not come from encrypt can decrypt to: one
\* or two blocks that end in any of the bytes below
Tampered ==
    {[Repeat(pat, n) EXCEPT ![n] = last] :
        pat \in [1 .. PatLen -> {0, 8}],
        n \in {DesBlock, 2 * DesBlock},
        last \in {0, 1, 7, 8, 9, 16, 17, 255}}

InitPbe ==
    /\ IdleRC4
    /\ IdleSecret
    /\ IdleVersion
    /\ \E password \in Passwords : pbe = PbeInit(password)
    /\ plaintext = <<>>
    /\ ciphertext = NotCalled
    /\ given = <<>>
    /\ buffer = NotCalled
    /\ recovered = NotCalled

\* pbe.encrypt(data)
EncryptPbe(data) ==
    /\ ciphertext = NotCalled
    /\ recovered = NotCalled
    /\ plaintext' = data
    /\ ciphertext' = PbeEncrypt(pbe, data)
    /\ UNCHANGED <<pbe, given, buffer, recovered>>
    /\ UNCHANGED <<rc4vars, secretvars, versionvars>>

\* pbe.decrypt(c)
DecryptPbe(c) ==
    /\ recovered = NotCalled
    /\ given' = c
    /\ buffer' = CipherDecrypt(pbe, c)
    /\ recovered' = PbeDecrypt(pbe, c)
    /\ UNCHANGED <<pbe, plaintext, ciphertext>>
    /\ UNCHANGED <<rc4vars, secretvars, versionvars>>

\* what decrypt can be given: the ciphertext encrypt returned or, when
\* encrypt was not called, the empty string, a string that is no whole
\* number of blocks, or the ciphertext of any tampered buffer
Givable ==
    IF ciphertext.kind = "bytes" THEN {ciphertext.val}
    ELSE IF ciphertext = NotCalled
    THEN {<<>>, <<1, 2, 3>>}
             \cup {CbcEncryptFrom(pbe.key, pbe.iv, b, 1) : b \in Tampered}
    ELSE {}

NextPbe ==
    \/ \E data \in Plaintexts : EncryptPbe(data)
    \/ \E c \in Givable : DecryptPbe(c)

SpecPbe == InitPbe /\ [][NextPbe]_vars

(***************************************************************************)
(* The cipher selection as a state machine: a caller asks for the          *)
(* constructor of one protocol version after another.                      *)
(***************************************************************************)
Versions == (0 - MaxVersion) .. MaxVersion

InitVersion ==
    /\ IdleRC4
    /\ IdleSecret
    /\ IdlePbe
    /\ version = 0
    /\ selected = "not called"

\* encryption_for_version(v)
Select(v) ==
    /\ version' = v
    /\ selected' = EncryptionForVersion(v)
    /\ UNCHANGED <<rc4vars, secretvars, pbevars>>

NextVersion == \E v \in Versions : Select(v)

SpecVersion == InitVersion /\ [][NextVersion]_vars

(***************************************************************************)
(* Claims about PBEWithMD5AndDES and encryption_for_version.               *)
(***************************************************************************)
\* C3: decrypt(encrypt(data)) equals data for every data and password, the
\* empty buffer and whole numbers of blocks included: whenever the
\* ciphertext encrypt returned has been decrypted, the result is the
\* plaintext.
C3_PbeRoundTrip ==
    (/\ recovered # NotCalled
     /\ ciphertext.kind = "bytes"
     /\ given = ciphertext.val)
        => recovered = Bytes(plaintext)

\* a plaintext of exactly one block that ends in a byte a pad could have:
\* a whole block of pad bytes was added, and decryption returned the
\* plaintext
C3_Witness ==
    /\ Len(plaintext) = 8
    /\ plaintext[8] = 1
    /\ ciphertext.kind = "bytes"
    /\ Len(ciphertext.val) = 16
    /\ ciphertext.val # plaintext \o Times(8, 8)
    /\ given = ciphertext.val
    /\ buffer = Bytes(plaintext \o Times(8, 8))
    /\ recovered = Bytes(plaintext)

\* the empty plaintext came back as the empty plaintext
C3_WitnessEmpty ==
    /\ plaintext = <<>>
    /\ ciphertext.kind = "bytes"
    /\ Len(ciphertext.val) = 8
    /\ given = ciphertext.val
    /\ recovered = Bytes(<<>>)

\* C5: decrypt strips the trailing n bytes of the DES-decrypted buffer, n
\* being the value of its last byte, and fails with an invalid-padding error
\* when n is 0 or n exceeds the length of the buffer; in those cases it
\* returns no plaintext.
C5_PadLengthChecked ==
    (recovered # NotCalled /\ buffer.kind = "bytes" /\ buffer.val # <<>>) =>
        LET n == buffer.val[Len(buffer.val)]
        IN  IF n = 0 \/ n > Len(buffer.val)
            THEN recovered = Raise("InvalidPaddingError")
            ELSE recovered = Bytes(SubSeq(buffer.val, 1, Len(buffer.val) - n))

\* C6: encryption_for_version is a total mapping on the integers that
\* returns the RC4 constructor for every version <= 32 and the AES-CFB8
\* constructor for every version >= 33, whatever was asked before.
C6_VersionGate ==
    selected # "not called" =>
        /\ version <= 32 => selected = "RC4"
        /\ version >= 33 => selected = "AES128CFB8"
        /\ selected \in {"RC4", "AES128CFB8"}

\* version 32 was asked about and the RC4 constructor came back
C6_Witness ==
    /\ version = 32
    /\ selected = "RC4"

(***************************************************************************)
(* Claims about the shared-secret transport.                               *)
(***************************************************************************)
\* C2: decrypt_shared_secret(encrypt_shared_secret(secret, pub), priv)
\* returns exactly secret, also when secret holds or starts with zero
\* bytes: whenever the ciphertext encrypt_shared_secret returned has been
\* decrypted with the private key of the pair, the result is the secret.
C2_SecretRoundTrip ==
    (/\ decrypted # NotCalled
     /\ encrypted_key.kind = "bytes"
     /\ received_key = encrypted_key.val)
        => decrypted = Bytes(shared_secret)

\* a 16-byte secret that starts with a zero byte and holds more of them
\* went through encryption and decryption and came back
C2_Witness ==
    /\ Len(shared_secret) = 16
    /\ shared_secret[1] = 0
    /\ shared_secret[2] # 0
    /\ shared_secret[3] = 0
    /\ encrypted_key.kind = "bytes"
    /\ received_key = encrypted_key.val
    /\ block # padded.val
    /\ decrypted = Bytes(shared_secret)

\* a block with the structure C4 names: block type 2 and a zero separator
\* after it
HasPkcs1Structure(b) ==
    /\ Len(b) >= 1
    /\ b[1] = 2
    /\ \E k \in 2 .. Len(b) : b[k] = 0

\* C4: decrypt_shared_secret fails with a padding error whenever the
\* RSA-decrypted block does not have the PKCS#1 v1.5 structure (block type
\* other than 2, or no zero separator after the padding); it never returns
\* None, an empty or a truncated value for such a block.
C4_MalformedRejected ==
    (decrypted # NotCalled /\ ~HasPkcs1Structure(block))
        => decrypted = Raise("PaddingError")

\* C9: for a payload shorter than 117 bytes _pkcs1_pad returns 128 bytes:
\* 0, 2, then 125 - len(payload) bytes that are all non-zero, then 0, then
\* the payload; zero bytes drawn from the random source are dropped, so the
\* first zero after the block type is the separator.
C9_PadShape ==
    (padded # NotCalled /\ Len(shared_secret) < 117) =>
        /\ padded.kind = "bytes"
        /\ LET b == padded.val
               n == Len(shared_secret)
           IN  /\ Len(b) = 128
               /\ b[1] = 0
               /\ b[2] = 2
               /\ \A k \in 3 .. (127 - n) : b[k] \in 1 .. 255
               /\ b[128 - n] = 0
               /\ SubSeq(b, 129 - n, 128) = shared_secret
               /\ Find(Drop(b, 2), 0) = 125 - n

\* a 16-byte payload was padded while the random source drew a zero byte
\* first and again after every non-zero byte
C9_Witness ==
    /\ Len(shared_secret) = 16
    /\ random_draws[1] = 0
    /\ padded.kind = "bytes"
    /\ Len(padded.val) = 128
    /\ padded.val[3] = random_draws[2]
    /\ padded.val[112] = 0

(***************************************************************************)
(* Claims about RC4.                                                       *)
(***************************************************************************)
\* C1: data encrypted by one RC4 instance and decrypted by a second,
\* independently constructed instance with the same key comes back byte for
\* byte, whatever the calls the stream was split into: whenever one side has
\* been fed exactly what the other side returned, it has returned exactly
\* what the other side was fed.
C1_RoundTrip ==
    \A i \in Side : \A j \in Side \ {i} :
        (rc4[i].key = rc4[j].key /\ fed[j] = got[i]) => got[j] = fed[i]

\* the sending side encrypted three bytes in two calls, the ciphertext
\* differs from the plaintext, and the receiving side was fed the ciphertext
C1_Witness ==
    /\ rc4["enc"].key = rc4["dec"].key
    /\ Len(fed["enc"]) = 3
    /\ Len(ret["enc"]) = 1
    /\ \A n \in 1 .. 3 : got["enc"][n] # fed["enc"][n]
    /\ fed["dec"] = got["enc"]
    /\ got["dec"] = fed["enc"]

\* bit k of a
Bit(a, k) == (a \div (2 ^ k)) % 2

\* the exclusive or of two bytes, bit by bit
ByteXor(a, b) ==
    LET d(k) == ((Bit(a, k) + Bit(b, k)) % 2) * (2 ^ k)
    IN  d(0) + d(1) + d(2) + d(3) + d(4) + d(5) + d(6) + d(7)

\* the key schedule as C7 states it: box[i] = i, then for i = lo .. hi - 1
\* in order x = (x + box[i] + key[i mod len(key)]) mod 256 and box[i],
\* box[x] are swapped
RECURSIVE StatedSchedule(_, _, _, _)
StatedSchedule(s, key, lo, hi) ==
    IF hi = lo THEN s
    ELSE LET s1 == StatedSchedule(s, key, lo, hi - ((hi - lo + 1) \div 2))
             i  == hi - 1
         IN  IF hi > lo + 1
             THEN IF s1.x \in Byte
                  THEN StatedSchedule(s1, key, hi - ((hi - lo + 1) \div 2), hi)
                  ELSE s1
             ELSE LET x == (s.x + s.box[i] + key[(i % Len(key)) + 1]) % 256
                  IN  [x   |-> x,
                       box |-> [n \in 0 .. 255 |->
                                   IF n = i THEN s.box[x]
                                   ELSE IF n = x THEN s.box[i]
                                   ELSE s.box[n]]]

StatedFresh ==
    [key \in Keys |->
        StatedSchedule([x |-> 0, box |-> [n \in 0 .. 255 |-> n]], key, 0, 256).box]

\* the crypt step as C7 states it, on the instance s and the input byte b:
\* the instance after it and the byte it emits
StatedStep(s, b) ==
    LET x   == (s.x + 1) % 256
        y   == (s.y + s.box[x]) % 256
        bx  == s.box[x]
        by  == s.box[y]
        box == [[s.box EXCEPT ![x] = by] EXCEPT ![y] = bx]
    IN  [self |-> [key |-> s.key, box |-> box, x |-> x, y |-> y],
         emit |-> ByteXor(b, box[(box[x] + box[y]) % 256])]

\* the stated step applied to the bytes of data from position k on, in
\* order: the instance reached and the bytes emitted
RECURSIVE StatedRun(_, _, _)
StatedRun(s, data, k) ==
    IF k > Len(data) THEN [self |-> s, out |-> <<>>]
    ELSE LET one  == StatedStep(s, data[k])
             rest == StatedRun(one.self, data, k + 1)
         IN  [self |-> rest.self, out |-> <<one.emit>> \o rest.out]

\* the instance C7 states construction leaves
StatedNew(key) == [key |-> key, box |-> StatedFresh[key], x |-> 0, y |-> 0]

\* C7: RC4 follows the stated algorithm exactly: an instance is always in
\* the state, and has always returned the bytes, that the stated key
\* schedule followed by one stated step per byte fed so far, in order,
\* gives; a constructed instance has x = y = 0.
C7_FollowsAlgorithm ==
    \A i \in Side :
        LET run == StatedRun(StatedNew(rc4[i].key), fed[i], 1)
        IN  /\ rc4[i] = run.self
            /\ got[i] = run.out
            /\ fed[i] = <<>> => (rc4[i].x = 0 /\ rc4[i].y = 0)

\* the key "Key" and three zero bytes, fed in three calls: the output is
\* the start of the published keystream of that key, EB 9F 77
C7_Witness ==
    /\ rc4["enc"].key = <<75, 101, 121>>
    /\ fed["enc"] = <<0, 0, 0>>
    /\ Len(ret["enc"]) = 1
    /\ got["enc"] = <<235, 159, 119>>
    /\ rc4["enc"].x = 3

\* C8: in every reachable state of an RC4 instance box is a permutation of
\* 0..255 and x and y are in 0..255.
C8_BoxIsPermutation ==
    \A i \in Side :
        /\ DOMAIN rc4[i].box = Byte
        /\ {rc4[i].box[n] : n \in Byte} = Byte
        /\ rc4[i].x \in Byte
        /\ rc4[i].y \in Byte

\* an instance that has processed three bytes: its box is no longer the one
\* the key schedule left, and it is still a permutation
C8_Witness ==
    /\ Len(fed["enc"]) = 3
    /\ rc4["enc"].x = 3
    /\ rc4["enc"].y # 0
    /\ rc4["enc"].box # Fresh[rc4["enc"].key].box
    /\ {rc4["enc"].box[n] : n \in Byte} = Byte

\* C10: the output of RC4 depends only on the key and the bytes fed so far,
\* not on the calls they were split into: two instances with the same key
\* that were fed the same stream have returned the same stream and are in
\* the same (box, x, y) state, and every instance has returned exactly as
\* many bytes as it was given.
C10_SplitIndependent ==
    /\ \A i \in Side : Len(got[i]) = Len(fed[i])
    /\ \A i \in Side : Len(ret[i]) <= Len(got[i])
                        /\ ret[i] = Drop(got[i], Len(got[i]) - Len(ret[i]))
    /\ \A i \in Side : \A j \in Side \ {i} :
           (rc4[i].key = rc4[j].key /\ fed[i] = fed[j])
               => (got[i] = got[j] /\ rc4[i] = rc4[j])

\* one side was fed two bytes in one call, the other the same two bytes in
\* two calls of one byte
C10_Witness ==
    /\ rc4["enc"].key = rc4["dec"].key
    /\ Len(fed["enc"]) = 2
    /\ fed["dec"] = fed["enc"]
    /\ Len(ret["enc"]) = 2
    /\ Len(ret["dec"]) = 1
    /\ got["dec"] = got["enc"]
    /\ rc4["dec"] = rc4["enc"]

====
